---- MODULE Spec2Model ----
(***************************************************************************)
(* Model of challenge1/producer_consumer.py: ThreadSafeQueue (a wrapper    *)
(* around queue.Queue), Producer, Consumer and                             *)
(* ProducerConsumerOrchestrator.                                           *)
(*                                                                         *)
(* Seven families of behaviours share the variables:                       *)
(*   Spec    the orchestrator pipeline: registration, run(), the producer  *)
(*           and consumer worker threads;                                  *)
(*   SpecQ   a bare ThreadSafeQueue called by independent caller threads   *)
(*           with every combination of block / timeout;                    *)
(*   SpecW   one Producer and one Consumer on a queue, started and         *)
(*           stopped by a caller thread, without orchestrator;             *)
(*   SpecNew construction of the queue, directly or by the orchestrator,   *)
(*           with any capacity, followed by Spec or SpecQ;                 *)
(*   SpecStats  a run() with a thread that calls get_stats() beside it;    *)
(*   SpecTwice  two runs in a row on the same source and output files;     *)
(*   SpecLate   Spec with add_producer / add_consumer calls made after     *)
(*           run() was called.                                             *)
(***************************************************************************)
EXTENDS Integers, Sequences, FiniteSets, TLC

\* ------------------------------------------------------------------ bounds
\* Largest queue capacity (maxsize) explored.
MaxCap == 2
\* Largest number of registered workers (producers + consumers).
MaxWorkers == 3
\* Largest total number of records over all source files.
MaxLines == 2
\* Number of caller threads of SpecQ.
NumCallers == 2
\* Largest number of calls the callers of SpecQ make in total.
MaxOps == 4
\* Largest number of start() and stop() calls the caller of SpecW makes.
MaxCalls == 3

VARIABLES
    maxsize,      \* ThreadSafeQueue._maxsize
    q,            \* queue.Queue's deque, oldest first
    unfinished,   \* queue.Queue.unfinished_tasks
    producers,    \* orchestrator._producers: sequence of producer records
    consumers,    \* orchestrator._consumers: sequence of consumer records
    sinks,        \* content of each consumer's output file (sequence of lines)
    opc,          \* position of the thread executing run()
    oi,           \* loop index of run()'s current for-loop
    enqLog,       \* history: every item appended to the queue, in order
    deqLog,       \* history: every <<who, item>> removed from the queue, in order
    call,         \* SpecQ: state of each caller thread's latest queue call
    ops,          \* SpecQ: number of calls made so far
    hist          \* SpecQ history: every put and get that took effect, in
                  \* order, "_waited" when the call had been suspended

vars == <<maxsize, q, unfinished, producers, consumers, sinks, opc, oi,
          enqLog, deqLog, call, ops, hist>>

\* ------------------------------------------------------------------- text
\* A line of text is a sequence of characters (one-character strings).
Whitespace == {" ", "\n"}

\* str.upper() on one character of the alphabet used by the source files.
UpperChar(ch) ==
    CASE ch = "a" -> "A"
      [] ch = "b" -> "B"
      [] OTHER -> ch

\* Consumer._process_item: item.upper()
ProcessItem(line) == [k \in DOMAIN line |-> UpperChar(line[k])]

RECURSIVE LStrip(_)
LStrip(s) ==
    IF s # <<>> /\ Head(s) \in Whitespace THEN LStrip(Tail(s)) ELSE s

RECURSIVE RStrip(_)
RStrip(s) ==
    IF s # <<>> /\ s[Len(s)] \in Whitespace
    THEN RStrip(SubSeq(s, 1, Len(s) - 1))
    ELSE s

\* str.strip()
Strip(s) == RStrip(LStrip(s))

\* The words the source files are made of; two of them have the same
\* upper-case form.
Words == << <<"a", "b">>, <<"A", "b">>, <<"b">> >>

Word(f, i) == Words[((f + i) % Len(Words)) + 1]

\* The raw lines of source file f holding n records: every record line is
\* padded with white space and followed by a blank line.
RECURSIVE RawFile(_, _)
RawFile(f, n) ==
    IF n = 0 THEN <<>>
    ELSE RawFile(f, n - 1) \o << <<" ">> \o Word(f, n) \o <<"\n">>, <<" ", "\n">> >>

\* [line.strip() for line in f.readlines() if line.strip()]
RECURSIVE StripNonBlank(_)
StripNonBlank(raw) ==
    IF raw = <<>> THEN <<>>
    ELSE IF Strip(Head(raw)) # <<>>
         THEN <<Strip(Head(raw))>> \o StripNonBlank(Tail(raw))
         ELSE StripNonBlank(Tail(raw))

RECURSIVE Reverse(_)
Reverse(s) == IF s = <<>> THEN <<>> ELSE Append(Reverse(Tail(s)), Head(s))

\* Mutant: the lines come out last first
ReadFileReversed(file) == Reverse(StripNonBlank(RawFile(file.id, file.n)))

\* Producer._read_file on an existing file
ReadFile(file) == StripNonBlank(RawFile(file.id, file.n))

\* ------------------------------------------------------------------ items
\* The sentinel None.  Every other queue item is <<p, i>>: the i-th record
\* read by producer p (SpecQ: the i-th value of caller p); the tag is
\* history, the program sees the text only.
EndMarker == <<0, 0>>

\* ------------------------------------------------------- ThreadSafeQueue
\* qsize()
QSize == Len(q)

\* empty(): not self._qsize()
QEmpty == ~(Len(q) > 0)

\* full(): 0 < self.maxsize <= self._qsize()
QFull == 0 < maxsize /\ maxsize <= Len(q)

\* Mutant: the capacity test is off by one, a full queue takes one more
PutReadyOffByOne == Len(q) <= maxsize

\* Mutant: a put needs two free slots
PutReadyNeedsTwo == Len(q) + 1 < maxsize

\* queue.Queue.put's wait condition: a slot is free
PutReady == Len(q) < maxsize

\* Mutant: a get needs two items
GetReadyNeedsTwo == Len(q) > 1

\* queue.Queue.get's wait condition: an item is there
GetReady == Len(q) > 0

\* Mutant: pop instead of popleft
QNewest == q[Len(q)]

\* queue.Queue._get: popleft, the item returned
QOldest == Head(q)

\* Mutant: the item returned stays in the queue
QRestPeek == q

\* queue.Queue._get: popleft, what is left
QRest == Tail(q)

\* Mutant: a put that does not count the item as unfinished
QAppendUncounted(item) ==
    /\ q' = Append(q, item)
    /\ unfinished' = unfinished
    /\ enqLog' = Append(enqLog, item)

\* queue.Queue._put, unfinished_tasks += 1
QAppend(item) ==
    /\ q' = Append(q, item)
    /\ unfinished' = unfinished + 1
    /\ enqLog' = Append(enqLog, item)

\* queue.Queue._get by thread who
QRemove(who) ==
    /\ q' = QRest
    /\ deqLog' = Append(deqLog, <<who, QOldest>>)

\* ----------------------------------------------------------------- sizes
RECURSIVE SumN(_)
SumN(ps) == IF ps = <<>> THEN 0 ELSE Head(ps).file.n + SumN(Tail(ps))

PIds == 1 .. Len(producers)
CIds == 1 .. Len(consumers)

\* ---------------------------------------------------------- registration
\* ProducerConsumerOrchestrator.__init__, and the state no caller of SpecQ
\* has touched.
Init ==
    /\ maxsize \in 1 .. MaxCap
    /\ q = <<>>
    /\ unfinished = 0
    /\ producers = <<>>
    /\ consumers = <<>>
    /\ sinks = <<>>
    /\ opc = "reg"
    /\ oi = 0
    /\ enqLog = <<>>
    /\ deqLog = <<>>
    /\ call = <<>>
    /\ ops = 0
    /\ hist = <<>>

\* Producer.__init__.  tries, marks and late are history of the current
\* worker thread: the number of put(None, block=False) calls it has made,
\* the positions in enqLog of the None it has enqueued, and the number of
\* records it has enqueued with the stop event set.
NewProducer(file) ==
    [file |-> file, pc |-> "idle", lines |-> <<>>, idx |-> 1,
     produced |-> 0, stop |-> FALSE, tries |-> 0, marks |-> <<>>, late |-> 0]

\* Consumer.__init__.  since and late are history of the current worker
\* thread: the number of items that had left the queue when it was started,
\* and the number of items it has dequeued with the stop event set.
NewConsumer ==
    [pc |-> "idle", item |-> EndMarker, consumed |-> 0, stop |-> FALSE,
     since |-> 0, late |-> 0]

\* add_producer(file_path)
AddProducer(exists, n) ==
    /\ opc = "reg"
    /\ Len(producers) + Len(consumers) < MaxWorkers
    /\ SumN(producers) + n <= MaxLines
    /\ producers' = Append(producers,
                           NewProducer([id |-> Len(producers) + 1,
                                        exists |-> exists, n |-> n]))
    /\ UNCHANGED <<maxsize, q, unfinished, consumers, sinks, opc, oi,
                   enqLog, deqLog, call, ops, hist>>

\* add_consumer(output_file): the output file may hold lines of an earlier run
AddConsumer(old) ==
    /\ opc = "reg"
    /\ Len(producers) + Len(consumers) < MaxWorkers
    /\ consumers' = Append(consumers, NewConsumer)
    /\ sinks' = Append(sinks, old)
    /\ UNCHANGED <<maxsize, q, unfinished, producers, opc, oi,
                   enqLog, deqLog, call, ops, hist>>

\* ------------------------------------------------------------- Producer
\* Where a worker thread can be observed: a step ends at the next access
\* to the queue or to a counter; code that touches only the thread's own
\* locals runs inside the step before it.
SetP(p, r) == producers' = [producers EXCEPT ![p] = r]

\* Mutant: the loop does not test the stop event
ProducerLoopIgnoresStop(r) ==
    IF r.idx > Len(r.lines) THEN "final" ELSE "put"

\* Mutant: the loop leaves out the last line
ProducerLoopSkipsLast(r) ==
    IF r.idx >= Len(r.lines) \/ r.stop THEN "final" ELSE "put"

\* for line in lines: if self._stop_event.is_set(): break
\* evaluated for producer record r: the position of its next statement
ProducerLoop(r) ==
    IF r.idx > Len(r.lines) \/ r.stop THEN "final" ELSE "put"

\* Mutant: the FileNotFoundError ends the worker, the finally block is
\* not run
ProducerReadNoFinally(p) ==
    /\ producers[p].pc = "read"
    /\ IF producers[p].file.exists
       THEN LET r == [producers[p] EXCEPT
                        !.lines = ReadFile(producers[p].file), !.idx = 1]
            IN  SetP(p, [r EXCEPT !.pc = ProducerLoop(r)])
       ELSE SetP(p, [producers[p] EXCEPT !.pc = "done"])
    /\ UNCHANGED <<maxsize, q, unfinished, consumers, sinks, opc, oi,
                   enqLog, deqLog, call, ops, hist>>

\* _produce: lines = self._read_file(); FileNotFoundError goes to finally
ProducerRead(p) ==
    /\ producers[p].pc = "read"
    /\ IF producers[p].file.exists
       THEN LET r == [producers[p] EXCEPT
                        !.lines = ReadFile(producers[p].file), !.idx = 1]
            IN  SetP(p, [r EXCEPT !.pc = ProducerLoop(r)])
       ELSE SetP(p, [producers[p] EXCEPT !.pc = "final"])
    /\ UNCHANGED <<maxsize, q, unfinished, consumers, sinks, opc, oi,
                   enqLog, deqLog, call, ops, hist>>

\* self._queue.put(line): blocks while the queue is full
ProducerPut(p) ==
    /\ producers[p].pc = "put"
    /\ PutReady
    /\ QAppend(<<p, producers[p].idx>>)
    /\ SetP(p, [producers[p] EXCEPT
                   !.pc = "inc",
                   !.late = IF producers[p].stop THEN @ + 1 ELSE @])
    /\ UNCHANGED <<maxsize, consumers, sinks, opc, oi, deqLog, call, ops, hist>>

\* Mutant: the count is raised by two for one put
ProducerIncTwice(p) ==
    /\ producers[p].pc = "inc"
    /\ LET r == [producers[p] EXCEPT !.produced = @ + 2, !.idx = @ + 1]
       IN  SetP(p, [r EXCEPT !.pc = ProducerLoop(r)])
    /\ UNCHANGED <<maxsize, q, unfinished, consumers, sinks, opc, oi,
                   enqLog, deqLog, call, ops, hist>>

\* with self._lock: self._items_produced += 1; then the next iteration
ProducerInc(p) ==
    /\ producers[p].pc = "inc"
    /\ LET r == [producers[p] EXCEPT !.produced = @ + 1, !.idx = @ + 1]
       IN  SetP(p, [r EXCEPT !.pc = ProducerLoop(r)])
    /\ UNCHANGED <<maxsize, q, unfinished, consumers, sinks, opc, oi,
                   enqLog, deqLog, call, ops, hist>>

\* Mutant: the put of None is tried again until it succeeds
ProducerFinalRetries(p) ==
    /\ producers[p].pc = "final"
    /\ IF PutReady
       THEN /\ QAppend(EndMarker)
            /\ SetP(p, [producers[p] EXCEPT
                           !.pc = "done", !.tries = @ + 1,
                           !.marks = Append(@, Len(enqLog) + 1)])
       ELSE /\ UNCHANGED <<q, unfinished, enqLog>>
            /\ SetP(p, [producers[p] EXCEPT !.tries = @ + 1])
    /\ UNCHANGED <<maxsize, consumers, sinks, opc, oi, deqLog, call, ops, hist>>

\* Mutant: the put of None blocks while the queue is full
ProducerFinalBlocking(p) ==
    /\ producers[p].pc = "final"
    /\ PutReady
    /\ QAppend(EndMarker)
    /\ SetP(p, [producers[p] EXCEPT
                   !.pc = "done", !.tries = @ + 1,
                   !.marks = Append(@, Len(enqLog) + 1)])
    /\ UNCHANGED <<maxsize, consumers, sinks, opc, oi, deqLog, call, ops, hist>>

\* finally: self._queue.put(None, block=False), queue.Full swallowed
ProducerFinal(p) ==
    /\ producers[p].pc = "final"
    /\ IF PutReady
       THEN /\ QAppend(EndMarker)
            /\ SetP(p, [producers[p] EXCEPT
                           !.pc = "done", !.tries = @ + 1,
                           !.marks = Append(@, Len(enqLog) + 1)])
       ELSE /\ UNCHANGED <<q, unfinished, enqLog>>
            /\ SetP(p, [producers[p] EXCEPT !.pc = "done", !.tries = @ + 1])
    /\ UNCHANGED <<maxsize, consumers, sinks, opc, oi, deqLog, call, ops, hist>>

ProducerStep(p) ==
    \/ ProducerRead(p)
    \/ ProducerPut(p)
    \/ ProducerInc(p)
    \/ ProducerFinal(p)

\* The text of queue item it, as the consumer receives it
ItemText(it) == producers[it[1]].lines[it[2]]

\* ------------------------------------------------------------- Consumer
SetC(c, r) == consumers' = [consumers EXCEPT ![c] = r]

\* Mutant: the loop does not test the stop event
ConsumerLoopIgnoresStop(r) == "get"

\* while not self._stop_event.is_set()
ConsumerLoop(r) == IF r.stop THEN "done" ELSE "get"

\* The worker starts: mkdir of the sink's directory, first loop test
ConsumerBegin(c) ==
    /\ consumers[c].pc = "begin"
    /\ SetC(c, [consumers[c] EXCEPT !.pc = ConsumerLoop(consumers[c])])
    /\ UNCHANGED <<maxsize, q, unfinished, producers, sinks, opc, oi,
                   enqLog, deqLog, call, ops, hist>>

\* item = self._queue.get(timeout=1.0): an item is there, at the call or
\* before the wait for one times out
ConsumerGet(c) ==
    /\ consumers[c].pc = "get"
    /\ GetReady
    /\ QRemove(c)
    /\ SetC(c, [consumers[c] EXCEPT
                   !.item = QOldest,
                   !.pc = IF QOldest = EndMarker THEN "none" ELSE "process",
                   !.late = IF consumers[c].stop THEN @ + 1 ELSE @])
    /\ UNCHANGED <<maxsize, unfinished, producers, sinks, opc, oi, enqLog, call, ops, hist>>

\* get(timeout=1.0) times out on an empty queue: queue.Empty, continue,
\* and the loop test; a consumer that is not stopped calls get again
ConsumerTimeout(c) ==
    /\ consumers[c].pc = "get"
    /\ ~GetReady
    /\ SetC(c, [consumers[c] EXCEPT !.pc = ConsumerLoop(consumers[c])])
    /\ UNCHANGED <<maxsize, q, unfinished, producers, sinks, opc, oi,
                   enqLog, deqLog, call, ops, hist>>

\* queue.Queue.task_done: ValueError when called too many times
TaskDoneOk == unfinished > 0

\* Mutant: after the None the loop goes on
ConsumerNoneContinues(c) ==
    /\ consumers[c].pc = "none"
    /\ IF TaskDoneOk
       THEN IF PutReady
            THEN /\ q' = Append(q, EndMarker)
                 /\ unfinished' = (unfinished - 1) + 1
                 /\ enqLog' = Append(enqLog, EndMarker)
            ELSE /\ unfinished' = unfinished - 1
                 /\ UNCHANGED <<q, enqLog>>
       ELSE UNCHANGED <<q, unfinished, enqLog>>
    /\ SetC(c, [consumers[c] EXCEPT !.pc = ConsumerLoop(consumers[c])])
    /\ UNCHANGED <<maxsize, producers, sinks, opc, oi, deqLog, call, ops, hist>>

\* Mutant: the None is counted as an item consumed
ConsumerNoneCounted(c) ==
    /\ consumers[c].pc = "none"
    /\ IF TaskDoneOk
       THEN IF PutReady
            THEN /\ q' = Append(q, EndMarker)
                 /\ unfinished' = (unfinished - 1) + 1
                 /\ enqLog' = Append(enqLog, EndMarker)
            ELSE /\ unfinished' = unfinished - 1
                 /\ UNCHANGED <<q, enqLog>>
       ELSE UNCHANGED <<q, unfinished, enqLog>>
    /\ SetC(c, [consumers[c] EXCEPT !.pc = "done", !.consumed = @ + 1])
    /\ UNCHANGED <<maxsize, producers, sinks, opc, oi, deqLog, call, ops, hist>>

\* if item is None: task_done(); put(None, block=False), queue.Full
\* swallowed; break.  A ValueError of task_done ends the worker in
\* _consume's except Exception.
ConsumerNone(c) ==
    /\ consumers[c].pc = "none"
    /\ IF TaskDoneOk
       THEN IF PutReady
            THEN /\ q' = Append(q, EndMarker)
                 /\ unfinished' = (unfinished - 1) + 1
                 /\ enqLog' = Append(enqLog, EndMarker)
            ELSE /\ unfinished' = unfinished - 1
                 /\ UNCHANGED <<q, enqLog>>
       ELSE UNCHANGED <<q, unfinished, enqLog>>
    /\ SetC(c, [consumers[c] EXCEPT !.pc = "done"])
    /\ UNCHANGED <<maxsize, producers, sinks, opc, oi, deqLog, call, ops, hist>>

\* Mutant: the line is written at the head of the output file
ConsumerProcessPrepends(c) ==
    /\ consumers[c].pc = "process"
    /\ sinks' = [sinks EXCEPT
                   ![c] = <<ProcessItem(ItemText(consumers[c].item))>> \o @]
    /\ IF TaskDoneOk
       THEN /\ unfinished' = unfinished - 1
            /\ LET r == [consumers[c] EXCEPT !.consumed = @ + 1]
               IN  SetC(c, [r EXCEPT !.pc = ConsumerLoop(r)])
       ELSE /\ UNCHANGED unfinished
            /\ SetC(c, [consumers[c] EXCEPT !.consumed = @ + 1, !.pc = "done"])
    /\ UNCHANGED <<maxsize, q, producers, opc, oi, enqLog, deqLog, call, ops, hist>>

\* Mutant: the item is counted twice
ConsumerProcessCountsTwice(c) ==
    /\ consumers[c].pc = "process"
    /\ sinks' = [sinks EXCEPT
                   ![c] = Append(@, ProcessItem(ItemText(consumers[c].item)))]
    /\ IF TaskDoneOk
       THEN /\ unfinished' = unfinished - 1
            /\ LET r == [consumers[c] EXCEPT !.consumed = @ + 2]
               IN  SetC(c, [r EXCEPT !.pc = ConsumerLoop(r)])
       ELSE /\ UNCHANGED unfinished
            /\ SetC(c, [consumers[c] EXCEPT !.consumed = @ + 2, !.pc = "done"])
    /\ UNCHANGED <<maxsize, q, producers, opc, oi, enqLog, deqLog, call, ops, hist>>

\* processed = self._process_item(item); f.write(processed + '\n');
\* self._items_consumed += 1; self._queue.task_done(); next iteration
ConsumerProcess(c) ==
    /\ consumers[c].pc = "process"
    /\ sinks' = [sinks EXCEPT
                   ![c] = Append(@, ProcessItem(ItemText(consumers[c].item)))]
    /\ IF TaskDoneOk
       THEN /\ unfinished' = unfinished - 1
            /\ LET r == [consumers[c] EXCEPT !.consumed = @ + 1]
               IN  SetC(c, [r EXCEPT !.pc = ConsumerLoop(r)])
       ELSE /\ UNCHANGED unfinished
            /\ SetC(c, [consumers[c] EXCEPT !.consumed = @ + 1, !.pc = "done"])
    /\ UNCHANGED <<maxsize, q, producers, opc, oi, enqLog, deqLog, call, ops, hist>>

ConsumerStep(c) ==
    \/ ConsumerBegin(c)
    \/ ConsumerGet(c)
    \/ ConsumerTimeout(c)
    \/ ConsumerNone(c)
    \/ ConsumerProcess(c)

\* --------------------------------------------------------- Orchestrator
\* Thread.is_alive()
ProducerAlive(p) == producers[p].pc \notin {"idle", "done"}

ConsumerAlive(c) == consumers[c].pc \notin {"idle", "done"}

\* Consumer.start(): clear the stop event, unlink the output file, spawn
StartedConsumer(r) ==
    [r EXCEPT !.stop = FALSE, !.pc = "begin", !.since = Len(deqLog),
              !.late = 0]

\* Producer.start(): clear the stop event, spawn (a new worker thread,
\* whose history is empty)
StartedProducer(r) ==
    [r EXCEPT !.stop = FALSE, !.pc = "read", !.tries = 0, !.marks = <<>>,
              !.late = 0]

\* orchestrator.run() is called
Run ==
    /\ opc = "reg"
    /\ opc' = "startC"
    /\ oi' = 1
    /\ UNCHANGED <<maxsize, q, unfinished, producers, consumers, sinks,
                   enqLog, deqLog, call, ops, hist>>

\* Mutant: the consumers are started without unlinking their output files
RunStartConsumerKeepsSink ==
    /\ opc = "startC"
    /\ oi <= Len(consumers)
    /\ ~ConsumerAlive(oi)
    /\ SetC(oi, StartedConsumer(consumers[oi]))
    /\ oi' = oi + 1
    /\ UNCHANGED <<maxsize, q, unfinished, producers, sinks, opc, enqLog, deqLog, call, ops, hist>>

\* for consumer in self._consumers: consumer.start()
RunStartConsumer ==
    /\ opc = "startC"
    /\ oi <= Len(consumers)
    /\ ~ConsumerAlive(oi)
    /\ SetC(oi, StartedConsumer(consumers[oi]))
    /\ sinks' = [sinks EXCEPT ![oi] = <<>>]
    /\ oi' = oi + 1
    /\ UNCHANGED <<maxsize, q, unfinished, producers, opc, enqLog, deqLog, call, ops, hist>>

\* for producer in self._producers: producer.start()
RunStartProducer ==
    /\ opc = "startP"
    /\ oi <= Len(producers)
    /\ ~ProducerAlive(oi)
    /\ SetP(oi, StartedProducer(producers[oi]))
    /\ oi' = oi + 1
    /\ UNCHANGED <<maxsize, q, unfinished, consumers, sinks, opc,
                   enqLog, deqLog, call, ops, hist>>

\* for producer in self._producers: producer.join()
RunJoinProducer ==
    /\ opc = "joinP"
    /\ oi <= Len(producers)
    /\ ~ProducerAlive(oi)
    /\ oi' = oi + 1
    /\ UNCHANGED <<maxsize, q, unfinished, producers, consumers, sinks, opc,
                   enqLog, deqLog, call, ops, hist>>

\* A join of the consumers that does not wait for the thread
RunJoinConsumerNoWait ==
    /\ opc = "joinC"
    /\ oi <= Len(consumers)
    /\ oi' = oi + 1
    /\ UNCHANGED <<maxsize, q, unfinished, producers, consumers, sinks, opc,
                   enqLog, deqLog, call, ops, hist>>

\* for consumer in self._consumers: consumer.join()
RunJoinConsumer ==
    /\ opc = "joinC"
    /\ oi <= Len(consumers)
    /\ ~ConsumerAlive(oi)
    /\ oi' = oi + 1
    /\ UNCHANGED <<maxsize, q, unfinished, producers, consumers, sinks, opc,
                   enqLog, deqLog, call, ops, hist>>

\* A run() without the loop that joins the producers
AfterPhaseNoProducerJoin(ph) ==
    CASE ph = "startC" -> "startP"
      [] ph = "startP" -> "sleep"
      [] ph = "joinP" -> "sleep"
      [] ph = "sleep" -> "joinC"
      [] ph = "joinC" -> "done"

\* The statement after the current one in run()
AfterPhase(ph) ==
    CASE ph = "startC" -> "startP"
      [] ph = "startP" -> "joinP"
      [] ph = "joinP" -> "sleep"
      [] ph = "sleep" -> "joinC"
      [] ph = "joinC" -> "done"

PhaseLen(ph) ==
    CASE ph \in {"startC", "joinC"} -> Len(consumers)
      [] ph \in {"startP", "joinP"} -> Len(producers)
      [] OTHER -> 0

\* A for-loop of run() is exhausted, or time.sleep(0.5) returns
RunAdvance ==
    /\ opc \in {"startC", "startP", "joinP", "sleep", "joinC"}
    /\ oi > PhaseLen(opc)
    /\ opc' = AfterPhase(opc)
    /\ oi' = 1
    /\ UNCHANGED <<maxsize, q, unfinished, producers, consumers, sinks,
                   enqLog, deqLog, call, ops, hist>>

RunStep ==
    \/ RunStartConsumer
    \/ RunStartProducer
    \/ RunJoinProducer
    \/ RunJoinConsumer
    \/ RunAdvance

\* ----------------------------------------------------------------- Spec
Next ==
    \/ \E n \in 0 .. MaxLines : AddProducer(TRUE, n)
    \/ AddProducer(FALSE, 0)
    \/ \E old \in {<<>>, << <<"o">> >>} : AddConsumer(old)
    \/ Run
    \/ RunStep
    \/ \E p \in PIds : ProducerStep(p)
    \/ \E c \in CIds : ConsumerStep(c)

Spec == Init /\ [][Next]_vars

\* Every worker thread that can run is eventually scheduled; nothing
\* obliges the caller to register workers or to call run().
FairSpec ==
    /\ Spec
    /\ WF_vars(RunStep)
    /\ \A p \in 1 .. MaxWorkers : WF_vars(p \in PIds /\ ProducerStep(p))
    /\ \A c \in 1 .. MaxWorkers : WF_vars(c \in CIds /\ ConsumerStep(c))

\* ------------------------------------------------- the end-to-end tests
\* test_end_to_end_multiple_producers_consumers: queue_size=10, two
\* producers with two lines each, two consumers.
TestQueueSize == 10
TestProducers == 2
TestConsumers == 2
TestLines == 2

\* The orchestrator of that test after its add_producer / add_consumer calls
InitTested ==
    /\ maxsize = TestQueueSize
    /\ q = <<>>
    /\ unfinished = 0
    /\ producers = [p \in 1 .. TestProducers |->
                      NewProducer([id |-> p, exists |-> TRUE, n |-> TestLines])]
    /\ consumers = [c \in 1 .. TestConsumers |-> NewConsumer]
    /\ sinks = [c \in 1 .. TestConsumers |-> <<>>]
    /\ opc = "reg"
    /\ oi = 0
    /\ enqLog = <<>>
    /\ deqLog = <<>>
    /\ call = <<>>
    /\ ops = 0
    /\ hist = <<>>

NextTested ==
    \/ Run
    \/ RunStep
    \/ \E p \in PIds : ProducerStep(p)
    \/ \E c \in CIds : ConsumerStep(c)

SpecTested == InitTested /\ [][NextTested]_vars

\* ---------------------------------------------- callers of a bare queue
Callers == 1 .. NumCallers

pipe == <<producers, consumers, sinks, opc, oi>>

\* What a caller holds of its latest call: the arguments of a suspended
\* call, the mode of a failed one, the item a get returned.
IdleCall ==
    [op |-> "none", block |-> FALSE, timed |-> FALSE, item |-> EndMarker,
     st |-> "idle", ret |-> EndMarker, since |-> 0]

\* ThreadSafeQueue(maxsize) with maxsize >= 1, no call made yet
InitQ ==
    /\ maxsize \in 1 .. MaxCap
    /\ q = <<>>
    /\ unfinished = 0
    /\ producers = <<>>
    /\ consumers = <<>>
    /\ sinks = <<>>
    /\ opc = "reg"
    /\ oi = 0
    /\ enqLog = <<>>
    /\ deqLog = <<>>
    /\ call = [k \in Callers |-> IdleCall]
    /\ ops = 0
    /\ hist = <<>>

\* A thread may make a call when it is not suspended in one
CanCall(k) == call[k].st # "waiting" /\ ops < MaxOps

SetCall(k, r) == call' = [call EXCEPT ![k] = r]

\* put(item, block, timeout): queue.Queue.put
\*   not full: append.  full and not block: raise Full.  full and block:
\*   wait on not_full (with the timeout when one is given)
QPut(k, block, timed) ==
    /\ CanCall(k)
    /\ ops' = ops + 1
    /\ LET item == <<k, ops + 1>>
           c == [IdleCall EXCEPT !.op = "put", !.block = block,
                                 !.timed = timed, !.item = item]
       IN  IF PutReady
           THEN /\ QAppend(item)
                /\ hist' = Append(hist, <<"put", k, item>>)
                /\ SetCall(k, [IdleCall EXCEPT !.op = "put", !.st = "ok"])
           ELSE /\ UNCHANGED <<q, unfinished, enqLog, hist>>
                /\ IF block
                   THEN SetCall(k, [c EXCEPT !.st = "waiting",
                                             !.since = Len(deqLog)])
                   ELSE SetCall(k, [c EXCEPT !.st = "full"])
    /\ UNCHANGED <<maxsize, deqLog, pipe>>

\* a put suspended on not_full finds a free slot
QPutResume(k) ==
    /\ call[k].st = "waiting"
    /\ call[k].op = "put"
    /\ PutReady
    /\ QAppend(call[k].item)
    /\ hist' = Append(hist, <<"put_waited", k, call[k].item>>)
    /\ SetCall(k, [IdleCall EXCEPT !.op = "put", !.st = "ok"])
    /\ UNCHANGED <<maxsize, deqLog, ops, pipe>>

\* Mutant: a put whose timeout ends appends its item all the same
QPutTimeoutAppends(k) ==
    /\ call[k].st = "waiting"
    /\ call[k].op = "put"
    /\ call[k].timed
    /\ ~PutReady
    /\ QAppend(call[k].item)
    /\ SetCall(k, [call[k] EXCEPT !.st = "full", !.since = 0])
    /\ UNCHANGED <<maxsize, deqLog, ops, hist, pipe>>

\* the timeout of a suspended put ends with the queue still full: raise Full
QPutTimeout(k) ==
    /\ call[k].st = "waiting"
    /\ call[k].op = "put"
    /\ call[k].timed
    /\ ~PutReady
    /\ SetCall(k, [call[k] EXCEPT !.st = "full", !.since = 0])
    /\ UNCHANGED <<maxsize, q, unfinished, enqLog, deqLog, ops, hist, pipe>>

\* get(block, timeout): queue.Queue.get
QGet(k, block, timed) ==
    /\ CanCall(k)
    /\ ops' = ops + 1
    /\ LET c == [IdleCall EXCEPT !.op = "get", !.block = block, !.timed = timed]
       IN  IF GetReady
           THEN /\ QRemove(k)
                /\ hist' = Append(hist, <<"get", k, QOldest>>)
                /\ SetCall(k, [IdleCall EXCEPT !.op = "get", !.st = "ok", !.ret = QOldest])
           ELSE /\ UNCHANGED <<q, deqLog, hist>>
                /\ IF block
                   THEN SetCall(k, [c EXCEPT !.st = "waiting",
                                             !.since = Len(enqLog)])
                   ELSE SetCall(k, [c EXCEPT !.st = "empty"])
    /\ UNCHANGED <<maxsize, unfinished, enqLog, pipe>>

\* a get suspended on not_empty finds an item
QGetResume(k) ==
    /\ call[k].st = "waiting"
    /\ call[k].op = "get"
    /\ GetReady
    /\ QRemove(k)
    /\ hist' = Append(hist, <<"get_waited", k, QOldest>>)
    /\ SetCall(k, [IdleCall EXCEPT !.op = "get", !.st = "ok",
                                   !.ret = QOldest])
    /\ UNCHANGED <<maxsize, unfinished, enqLog, ops, pipe>>

\* the timeout of a suspended get ends with the queue still empty: raise Empty
QGetTimeout(k) ==
    /\ call[k].st = "waiting"
    /\ call[k].op = "get"
    /\ call[k].timed
    /\ ~GetReady
    /\ SetCall(k, [call[k] EXCEPT !.st = "empty", !.since = 0])
    /\ UNCHANGED <<maxsize, q, unfinished, enqLog, deqLog, ops, hist, pipe>>

\* task_done(): ValueError when called more often than put
QTaskDone(k) ==
    /\ CanCall(k)
    /\ ops' = ops + 1
    /\ IF TaskDoneOk
       THEN /\ unfinished' = unfinished - 1
            /\ SetCall(k, [IdleCall EXCEPT !.op = "task_done", !.st = "ok"])
       ELSE /\ UNCHANGED unfinished
            /\ SetCall(k, [IdleCall EXCEPT !.op = "task_done", !.st = "error"])
    /\ UNCHANGED <<maxsize, q, enqLog, deqLog, hist, pipe>>

\* Mutant: join() lets one unfinished task pass
JoinReadyAtOne == unfinished <= 1

\* join(): returns when unfinished_tasks is zero
JoinReady == unfinished = 0

QJoin(k) ==
    /\ CanCall(k)
    /\ ops' = ops + 1
    /\ SetCall(k, [IdleCall EXCEPT !.op = "join", !.block = TRUE,
                                   !.st = IF JoinReady THEN "ok" ELSE "waiting"])
    /\ UNCHANGED <<maxsize, q, unfinished, enqLog, deqLog, hist, pipe>>

QJoinResume(k) ==
    /\ call[k].st = "waiting"
    /\ call[k].op = "join"
    /\ JoinReady
    /\ SetCall(k, [IdleCall EXCEPT !.op = "join", !.st = "ok"])
    /\ UNCHANGED <<maxsize, q, unfinished, enqLog, deqLog, ops, hist, pipe>>

\* A suspended call goes on when its condition holds or its timeout ends
QResume(k) ==
    \/ QPutResume(k)
    \/ QPutTimeout(k)
    \/ QGetResume(k)
    \/ QGetTimeout(k)
    \/ QJoinResume(k)

NextQ ==
    \/ \E k \in Callers, b \in BOOLEAN, t \in BOOLEAN : QPut(k, b, t)
    \/ \E k \in Callers, b \in BOOLEAN, t \in BOOLEAN : QGet(k, b, t)
    \/ \E k \in Callers : QTaskDone(k)
    \/ \E k \in Callers : QJoin(k)
    \/ \E k \in Callers : QResume(k)

SpecQ == InitQ /\ [][NextQ]_vars

\* A suspended thread is eventually scheduled when it can go on; nothing
\* obliges a thread to make a further call.
FairSpecQ == SpecQ /\ \A k \in Callers : WF_vars(QResume(k))

\* ------------------------------------- workers driven by a caller thread
\* A thread that has constructed a queue, one Producer and one Consumer
\* calls start() and stop() on them itself, as the unit tests do; there is
\* no orchestrator.  call holds the record of its latest call, ops counts
\* its calls.
InitW ==
    /\ maxsize \in 1 .. MaxCap
    /\ q = <<>>
    /\ unfinished = 0
    /\ \E exists \in BOOLEAN, n \in 0 .. MaxLines :
          /\ exists \/ n = 0
          /\ producers = << NewProducer([id |-> 1, exists |-> exists, n |-> n]) >>
    /\ consumers = << NewConsumer >>
    /\ \E old \in {<<>>, << <<"o">> >>} : sinks = << old >>
    /\ opc = "reg"
    /\ oi = 0
    /\ enqLog = <<>>
    /\ deqLog = <<>>
    /\ call = <<>>
    /\ ops = 0
    /\ hist = <<>>

WorkerCall(op, kind, id, st) ==
    << [op |-> op, kind |-> kind, id |-> id, st |-> st] >>

MayCall == opc = "reg" /\ ops < MaxCalls

\* Producer.start(): RuntimeError when the thread is alive
ProducerStart(p) ==
    /\ MayCall
    /\ ops' = ops + 1
    /\ IF ProducerAlive(p)
       THEN /\ call' = WorkerCall("start", "producer", p, "error")
            /\ UNCHANGED producers
       ELSE /\ call' = WorkerCall("start", "producer", p, "ok")
            /\ SetP(p, StartedProducer(producers[p]))
    /\ UNCHANGED <<maxsize, q, unfinished, consumers, sinks, opc, oi,
                   enqLog, deqLog, hist>>

\* Producer.stop(): set the stop event, then wait for the thread for at
\* most 5 seconds; stop() returns whether or not the thread has ended
ProducerStop(p) ==
    /\ MayCall
    /\ ops' = ops + 1
    /\ call' = WorkerCall("stop", "producer", p, "ok")
    /\ SetP(p, [producers[p] EXCEPT !.stop = TRUE])
    /\ UNCHANGED <<maxsize, q, unfinished, consumers, sinks, opc, oi,
                   enqLog, deqLog, hist>>

\* Mutant: start() leaves the output file as it is
ConsumerStartKeepsSink(c) ==
    /\ MayCall
    /\ ops' = ops + 1
    /\ IF ConsumerAlive(c)
       THEN /\ call' = WorkerCall("start", "consumer", c, "error")
            /\ UNCHANGED <<consumers, sinks>>
       ELSE /\ call' = WorkerCall("start", "consumer", c, "ok")
            /\ SetC(c, StartedConsumer(consumers[c]))
            /\ UNCHANGED sinks
    /\ UNCHANGED <<maxsize, q, unfinished, producers, opc, oi,
                   enqLog, deqLog, hist>>

\* Mutant: start() does not test whether the thread is alive
ConsumerStartUnchecked(c) ==
    /\ MayCall
    /\ ops' = ops + 1
    /\ call' = WorkerCall("start", "consumer", c, "ok")
    /\ SetC(c, StartedConsumer(consumers[c]))
    /\ sinks' = [sinks EXCEPT ![c] = <<>>]
    /\ UNCHANGED <<maxsize, q, unfinished, producers, opc, oi,
                   enqLog, deqLog, hist>>

\* Consumer.start(): RuntimeError when the thread is alive; otherwise clear
\* the stop event, unlink the output file, spawn
ConsumerStart(c) ==
    /\ MayCall
    /\ ops' = ops + 1
    /\ IF ConsumerAlive(c)
       THEN /\ call' = WorkerCall("start", "consumer", c, "error")
            /\ UNCHANGED <<consumers, sinks>>
       ELSE /\ call' = WorkerCall("start", "consumer", c, "ok")
            /\ SetC(c, StartedConsumer(consumers[c]))
            /\ sinks' = [sinks EXCEPT ![c] = <<>>]
    /\ UNCHANGED <<maxsize, q, unfinished, producers, opc, oi,
                   enqLog, deqLog, hist>>

\* Consumer.stop(): set the stop event, then wait for at most 5 seconds
ConsumerStop(c) ==
    /\ MayCall
    /\ ops' = ops + 1
    /\ call' = WorkerCall("stop", "consumer", c, "ok")
    /\ SetC(c, [consumers[c] EXCEPT !.stop = TRUE])
    /\ UNCHANGED <<maxsize, q, unfinished, producers, sinks, opc, oi,
                   enqLog, deqLog, hist>>

NextW ==
    \/ \E p \in PIds : ProducerStart(p)
    \/ \E p \in PIds : ProducerStop(p)
    \/ \E c \in CIds : ConsumerStart(c)
    \/ \E c \in CIds : ConsumerStop(c)
    \/ \E p \in PIds : ProducerStep(p)
    \/ \E c \in CIds : ConsumerStep(c)

SpecW == InitW /\ [][NextW]_vars

\* The worker thread of the producer and that of the consumer are
\* eventually scheduled when they can run; nothing obliges the caller to
\* make a call.
FairSpecW ==
    /\ SpecW
    /\ WF_vars(ProducerStep(1))
    /\ WF_vars(ConsumerStep(1))

\* --------------------------------------------------------- construction
\* Mutant: capacity 0 is let through (queue.Queue(0) is unbounded)
InvalidSizeZeroOk(size) == size < 0

\* ThreadSafeQueue.__init__: if maxsize <= 0: raise ValueError
InvalidSize(size) == size <= 0

\* Nothing is constructed yet: no queue, no orchestrator.
InitNew ==
    /\ maxsize = 0
    /\ q = <<>>
    /\ unfinished = 0
    /\ producers = <<>>
    /\ consumers = <<>>
    /\ sinks = <<>>
    /\ opc = "new"
    /\ oi = 0
    /\ enqLog = <<>>
    /\ deqLog = <<>>
    /\ call = <<>>
    /\ ops = 0
    /\ hist = <<>>

\* ProducerConsumerOrchestrator(queue_size=size): the ValueError of
\* ThreadSafeQueue.__init__ leaves __init__ before anything is assigned.
\* hist records the call and its argument.
NewOrchestrator(size) ==
    /\ opc = "new"
    /\ hist' = << <<"orchestrator", size>> >>
    /\ IF InvalidSize(size)
       THEN /\ opc' = "error"
            /\ UNCHANGED <<maxsize, q, unfinished, producers, consumers>>
       ELSE /\ maxsize' = size
            /\ q' = <<>>
            /\ unfinished' = 0
            /\ producers' = <<>>
            /\ consumers' = <<>>
            /\ opc' = "reg"
    /\ UNCHANGED <<sinks, oi, enqLog, deqLog, call, ops>>

\* ThreadSafeQueue(maxsize=size) constructed directly, for caller threads
NewQueue(size) ==
    /\ opc = "new"
    /\ hist' = << <<"queue", size>> >>
    /\ IF InvalidSize(size)
       THEN /\ opc' = "error"
            /\ UNCHANGED <<maxsize, q, unfinished, call>>
       ELSE /\ maxsize' = size
            /\ q' = <<>>
            /\ unfinished' = 0
            /\ call' = [k \in Callers |-> IdleCall]
            /\ opc' = "queue"
    /\ UNCHANGED <<producers, consumers, sinks, oi, enqLog, deqLog, ops>>

\* Construction, then the pipeline on the orchestrator or the callers on
\* the queue that was constructed.
NextNew ==
    \/ \E size \in -MaxCap .. MaxCap : NewOrchestrator(size)
    \/ \E size \in -MaxCap .. MaxCap : NewQueue(size)
    \/ Next
    \/ (opc = "queue" /\ NextQ)

SpecNew == InitNew /\ [][NextNew]_vars

\* ------------------------------------------------------------ get_stats
RECURSIVE SumProduced(_)
SumProduced(ps) ==
    IF ps = <<>> THEN 0 ELSE Head(ps).produced + SumProduced(Tail(ps))

RECURSIVE SumConsumed(_)
SumConsumed(cs) ==
    IF cs = <<>> THEN 0 ELSE Head(cs).consumed + SumConsumed(Tail(cs))

\* ProducerConsumerOrchestrator.get_stats()
GetStats ==
    [total_produced |-> SumProduced(producers),
     total_consumed |-> SumConsumed(consumers),
     queue_size |-> QSize,
     producers |-> Len(producers),
     consumers |-> Len(consumers)]

\* ------------------------------------------- get_stats() beside a run
\* A thread calls get_stats() once, at any moment before, during or after
\* run(), on an orchestrator with one consumer and either one producer of
\* MaxLines lines or two producers sharing them.  The call reads one counter per step, as the generator
\* expressions of lines 379-380 do, each under that worker's lock.  Its
\* record holds the partial sums and, as history, where run() was and what
\* the sums were when the call began.
InitStats ==
    /\ maxsize \in 1 .. MaxCap
    /\ q = <<>>
    /\ unfinished = 0
    /\ \E np \in 1 .. 2 :
          producers = [p \in 1 .. np |->
                         NewProducer([id |-> p, exists |-> TRUE,
                                      n |-> MaxLines \div np])]
    /\ consumers = << NewConsumer >>
    /\ sinks = << <<>> >>
    /\ opc = "reg"
    /\ oi = 0
    /\ enqLog = <<>>
    /\ deqLog = <<>>
    /\ call = <<>>
    /\ ops = 0
    /\ hist = <<>>

\* get_stats() is called
StatsCall ==
    /\ call = <<>>
    /\ call' = << [op |-> "get_stats", st |-> "produced", i |-> 1,
                   total_produced |-> 0, total_consumed |-> 0,
                   queue_size |-> 0, producers |-> 0, consumers |-> 0,
                   at |-> opc,
                   lo |-> <<SumProduced(producers), SumConsumed(consumers)>>] >>
    /\ UNCHANGED <<maxsize, q, unfinished, producers, consumers, sinks, opc, oi,
                   enqLog, deqLog, ops, hist>>

\* A get_stats() that adds the first producer's count for every producer
StatsProducedReadsFirst ==
    /\ call # <<>>
    /\ call[1].st = "produced"
    /\ IF call[1].i <= Len(producers)
       THEN call' = << [call[1] EXCEPT
                          !.total_produced = @ + producers[1].produced,
                          !.i = @ + 1] >>
       ELSE call' = << [call[1] EXCEPT !.st = "consumed", !.i = 1] >>
    /\ UNCHANGED <<maxsize, q, unfinished, producers, consumers, sinks, opc, oi,
                   enqLog, deqLog, ops, hist>>

\* sum(p.get_items_produced() for p in self._producers): the next term
StatsProduced ==
    /\ call # <<>>
    /\ call[1].st = "produced"
    /\ IF call[1].i <= Len(producers)
       THEN call' = << [call[1] EXCEPT
                          !.total_produced = @ + producers[call[1].i].produced,
                          !.i = @ + 1] >>
       ELSE call' = << [call[1] EXCEPT !.st = "consumed", !.i = 1] >>
    /\ UNCHANGED <<maxsize, q, unfinished, producers, consumers, sinks, opc, oi,
                   enqLog, deqLog, ops, hist>>

\* sum(c.get_items_consumed() for c in self._consumers): the next term
StatsConsumed ==
    /\ call # <<>>
    /\ call[1].st = "consumed"
    /\ IF call[1].i <= Len(consumers)
       THEN call' = << [call[1] EXCEPT
                          !.total_consumed = @ + consumers[call[1].i].consumed,
                          !.i = @ + 1] >>
       ELSE call' = << [call[1] EXCEPT !.st = "return", !.i = 1] >>
    /\ UNCHANGED <<maxsize, q, unfinished, producers, consumers, sinks, opc, oi,
                   enqLog, deqLog, ops, hist>>

\* The dictionary is built and returned: qsize() and the two len()
StatsReturn ==
    /\ call # <<>>
    /\ call[1].st = "return"
    /\ call' = << [call[1] EXCEPT !.st = "ok",
                                  !.queue_size = QSize,
                                  !.producers = Len(producers),
                                  !.consumers = Len(consumers)] >>
    /\ UNCHANGED <<maxsize, q, unfinished, producers, consumers, sinks, opc, oi,
                   enqLog, deqLog, ops, hist>>

NextStats ==
    \/ StatsCall
    \/ StatsProduced
    \/ StatsConsumed
    \/ StatsReturn
    \/ NextTested

SpecStats == InitStats /\ [][NextStats]_vars

\* ------------------------------------------------ the pipeline run twice
\* A caller builds an orchestrator with one or two producers and one or two
\* consumers, calls run(), and when run() has returned builds a fresh
\* orchestrator with the same queue size, the same source files and the
\* same output files and calls run() on it.  hist keeps what the output files
\* held when the first run() returned.
InitTwice ==
    /\ maxsize \in 1 .. MaxCap
    /\ q = <<>>
    /\ unfinished = 0
    /\ \E np \in 1 .. 2, n \in 1 .. MaxLines :
          /\ np * n <= MaxLines
          /\ producers = [p \in 1 .. np |->
                            NewProducer([id |-> p, exists |-> TRUE, n |-> n])]
    /\ \E nc \in 1 .. 2 :
          /\ Len(producers) + nc <= MaxWorkers
          /\ consumers = [c \in 1 .. nc |-> NewConsumer]
          /\ sinks = [c \in 1 .. nc |-> <<>>]
    /\ opc = "reg"
    /\ oi = 0
    /\ enqLog = <<>>
    /\ deqLog = <<>>
    /\ call = <<>>
    /\ ops = 0
    /\ hist = <<>>

\* ProducerConsumerOrchestrator(queue_size), the same add_producer and
\* add_consumer calls, run()
RunAgain ==
    /\ opc = "done"
    /\ hist = <<>>
    /\ hist' = << sinks >>
    /\ q' = <<>>
    /\ unfinished' = 0
    /\ producers' = [p \in PIds |-> NewProducer(producers[p].file)]
    /\ consumers' = [c \in CIds |-> NewConsumer]
    /\ enqLog' = <<>>
    /\ deqLog' = <<>>
    /\ opc' = "startC"
    /\ oi' = 1
    /\ UNCHANGED <<maxsize, sinks, call, ops>>

NextTwice ==
    \/ RunAgain
    \/ NextTested

SpecTwice == InitTwice /\ [][NextTwice]_vars

\* ------------------------------------------- registration beside a run
\* add_producer and add_consumer test nothing: a caller that registers a
\* worker after run() was called, from another thread or after run() has
\* returned, gets it appended.  A for-loop of run() that is still under way
\* reaches the new element; a worker that no loop started has no thread,
\* and its join() returns at once.
LateAddProducer(exists, n) ==
    /\ opc # "reg"
    /\ Len(producers) + Len(consumers) < MaxWorkers
    /\ SumN(producers) + n <= MaxLines
    /\ producers' = Append(producers,
                           NewProducer([id |-> Len(producers) + 1,
                                        exists |-> exists, n |-> n]))
    /\ UNCHANGED <<maxsize, q, unfinished, consumers, sinks, opc, oi,
                   enqLog, deqLog, call, ops, hist>>

LateAddConsumer(old) ==
    /\ opc # "reg"
    /\ Len(producers) + Len(consumers) < MaxWorkers
    /\ consumers' = Append(consumers, NewConsumer)
    /\ sinks' = Append(sinks, old)
    /\ UNCHANGED <<maxsize, q, unfinished, producers, opc, oi,
                   enqLog, deqLog, call, ops, hist>>

NextLate ==
    \/ \E n \in 0 .. MaxLines : LateAddProducer(TRUE, n)
    \/ LateAddProducer(FALSE, 0)
    \/ \E old \in {<<>>, << <<"o">> >>} : LateAddConsumer(old)
    \/ Next

SpecLate == Init /\ [][NextLate]_vars

\* ----------------------------------------------------- helpers of claims
\* Number of occurrences of x in sequence s
Count(s, x) == Cardinality({i \in DOMAIN s : s[i] = x})

Range(s) == {s[i] : i \in DOMAIN s}

\* s and t hold the same elements the same number of times
SameBag(s, t) ==
    \A x \in Range(s) \cup Range(t) : Count(s, x) = Count(t, x)

\* The items of a dequeue log, in order
Items(log) == [i \in DOMAIN log |-> log[i][2]]

\* The upper-case form of the n records of source file f, from the words
\* the file was written with
ExpectedSink(f, n) == [i \in 1 .. n |-> ProcessItem(Word(f, i))]

\* run() was called and has returned
RunReturned == opc = "done"

\* Caller k is suspended in a put / get without timeout
WaitingPut(k) ==
    call[k].st = "waiting" /\ call[k].op = "put" /\ ~call[k].timed

WaitingGet(k) ==
    call[k].st = "waiting" /\ call[k].op = "get" /\ ~call[k].timed

\* ------------------------------------------------------------------ C1
\* C1: the buffer always holds between 0 and maxsize items; qsize() is
\* never negative and never above maxsize, empty() is true exactly when
\* qsize() = 0 and full() exactly when qsize() = maxsize.
C1_SizeWithinCapacity ==
    /\ QSize >= 0
    /\ QSize <= maxsize
    /\ QEmpty <=> (QSize = 0)
    /\ QFull <=> (QSize = maxsize)

\* A producer is suspended in put on a full queue of capacity 2 while a
\* consumer thread runs.
C1_Witness ==
    /\ maxsize = 2
    /\ QFull
    /\ \E p \in PIds : producers[p].pc = "put"
    /\ \E c \in CIds : ConsumerAlive(c)

\* ------------------------------------------------------------------ C2
\* C2: once run() is called with at least one producer and one consumer
\* registered, it eventually returns, whatever their numbers, the capacity
\* and the sources.
C2_RunReturns ==
    (opc # "reg" /\ Len(producers) >= 1 /\ Len(consumers) >= 1) ~> RunReturned

\* ------------------------------------------------------------------ C3
\* C3: when run() joins the consumers, and when it has returned, the stop
\* flag of every registered consumer is set.
C3_StopSetBeforeJoin ==
    opc \in {"joinC", "done"} => \A c \in CIds : consumers[c].stop

\* ------------------------------------------------------------------ C4
\* C4: two producers with two lines each and two consumers: when run()
\* has returned, total_produced is the number of source lines and
\* total_consumed equals total_produced.
C4_AllProducedAllConsumed ==
    RunReturned =>
        /\ GetStats.total_produced = SumN(producers)
        /\ GetStats.total_consumed = GetStats.total_produced

\* ------------------------------------------------------------------ C5
\* C5: one producer whose source has n lines and one consumer: when run()
\* has returned, total_produced = n, total_consumed = n and the sink holds
\* the upper-case form of every source line exactly once.
C5_SingleProducerConsumer ==
    (/\ RunReturned
     /\ Len(producers) = 1
     /\ Len(consumers) = 1
     /\ producers[1].file.exists)
    => /\ GetStats.total_produced = producers[1].file.n
       /\ GetStats.total_consumed = producers[1].file.n
       /\ SameBag(sinks[1], ExpectedSink(producers[1].file.id,
                                         producers[1].file.n))

\* run() has returned for one producer of two lines and one consumer on a
\* queue of capacity 1.
C5_Witness ==
    /\ RunReturned
    /\ Len(producers) = 1
    /\ Len(consumers) = 1
    /\ producers[1].file.exists
    /\ producers[1].file.n = 2
    /\ maxsize = 1
    /\ Len(sinks[1]) = 2

\* ------------------------------------------------------------------ C6
\* C6: no record is returned by two get calls, a record that was
\* dequeued is no longer in the buffer, and the sinks of the started
\* consumers hold each upper-case line at most as often as records with
\* that upper-case form were dequeued.
C6_NoDuplicateDelivery ==
    /\ \A i, j \in DOMAIN deqLog :
          (i < j /\ deqLog[i][2] = deqLog[j][2]) => deqLog[i][2] = EndMarker
    /\ \A i \in DOMAIN deqLog, j \in DOMAIN q :
          deqLog[i][2] = q[j] => q[j] = EndMarker
    /\ \A i, j \in DOMAIN q : (i < j /\ q[i] = q[j]) => q[i] = EndMarker
    /\ \A c \in CIds : \A t \in Range(sinks[c]) :
          consumers[c].pc # "idle" =>
             Cardinality({i \in DOMAIN sinks[c] : sinks[c][i] = t})
                <= Cardinality({i \in DOMAIN deqLog :
                                  /\ deqLog[i][1] = c
                                  /\ deqLog[i][2] # EndMarker
                                  /\ ProcessItem(ItemText(deqLog[i][2])) = t})

\* Two consumers have each dequeued a record and written it to their sink.
C6_Witness ==
    \E c \in CIds, d \in CIds :
        /\ c # d
        /\ consumers[c].pc # "idle" /\ consumers[d].pc # "idle"
        /\ sinks[c] # <<>> /\ sinks[d] # <<>>

\* ------------------------------------------------------------------ C7
\* C7: a put without timeout called on a full buffer is suspended without
\* appending; while the buffer is full it stays suspended; it goes on only
\* by appending its item, after a get has removed an element.
C7_BlockingPutWaits ==
    [][ /\ Len(q) >= maxsize => Len(q') <= Len(q)
        /\ \A k \in Callers :
             /\ (WaitingPut(k) /\ Len(q) >= maxsize) => call'[k] = call[k]
             /\ (WaitingPut(k) /\ call'[k] # call[k]) =>
                   /\ call'[k].op = "put" /\ call'[k].st = "ok"
                   /\ q' = Append(q, call[k].item)
                   /\ Len(deqLog) > call[k].since
             /\ (~WaitingPut(k) /\ WaitingPut(k)') =>
                   (Len(q) >= maxsize /\ q' = q) ]_vars

\* A put that had been suspended on a full buffer has appended its item.
C7_Witness ==
    /\ hist # <<>>
    /\ hist[Len(hist)][1] = "put_waited"
    /\ Len(q) = maxsize

\* ------------------------------------------------------------------ C8
\* C8 as stated: a caller suspended in a put on a full buffer, once a get
\* has removed an element, eventually completes its put.
C8_SuspendedPutCompletes ==
    \A k \in Callers :
        (WaitingPut(k) /\ Len(q) < maxsize)
            ~> (call[k].op = "put" /\ call[k].st = "ok")

\* C8 as amended: once a get has removed an element, the suspended put
\* eventually completes unless another put fills the buffer again first;
\* when it completes, its item is the newest element of the buffer.
C8_SuspendedPutCompletesOrRefilled ==
    /\ \A k \in Callers :
          (WaitingPut(k) /\ Len(q) < maxsize)
              ~> ((call[k].op = "put" /\ call[k].st = "ok") \/ Len(q) >= maxsize)
    /\ [][\A k \in Callers :
             (WaitingPut(k) /\ call'[k].st = "ok") =>
                 q' = Append(q, call[k].item)]_vars

\* A suspended put has completed after a get by another caller, and its
\* item is in the buffer.
C8_Witness ==
    \E k \in Callers :
        /\ Len(hist) >= 2
        /\ hist[Len(hist)][1] = "put_waited"
        /\ hist[Len(hist)][2] = k
        /\ hist[Len(hist) - 1][1] \in {"get", "get_waited"}
        /\ hist[Len(hist) - 1][2] # k
        /\ call[k].op = "put" /\ call[k].st = "ok"
        /\ q # <<>> /\ q[Len(q)] = hist[Len(hist)][3]

\* ------------------------------------------------------------------ C9
\* C9 as stated: a get without timeout on an empty buffer does not return
\* while the buffer is empty, and once a put has added an item the get
\* eventually returns.
C9_SuspendedGetReturns ==
    \A k \in Callers :
        (WaitingGet(k) /\ Len(q) > 0)
            ~> (call[k].op = "get" /\ call[k].st = "ok")

\* C9 as amended: the suspended get does not return while the buffer is
\* empty; once a put has added an item it eventually returns unless
\* another get empties the buffer first; it returns the oldest item, and
\* leaves the buffer empty when that was the only one.
C9_SuspendedGetReturnsOrEmptied ==
    /\ \A k \in Callers :
          (WaitingGet(k) /\ Len(q) > 0)
              ~> ((call[k].op = "get" /\ call[k].st = "ok") \/ Len(q) = 0)
    /\ [][\A k \in Callers :
             /\ (WaitingGet(k) /\ Len(q) = 0) => call'[k] = call[k]
             /\ (WaitingGet(k) /\ call'[k] # call[k]) =>
                   /\ call'[k].op = "get" /\ call'[k].st = "ok"
                   /\ call'[k].ret = Head(q)
                   /\ q' = Tail(q)
                   /\ Len(enqLog) > call[k].since]_vars

\* A get that had been suspended on an empty buffer has returned the item
\* another caller put, and the buffer is empty again.
C9_Witness ==
    \E k \in Callers :
        /\ Len(hist) >= 2
        /\ hist[Len(hist)][1] = "get_waited"
        /\ hist[Len(hist)][2] = k
        /\ hist[Len(hist) - 1][1] = "put"
        /\ hist[Len(hist) - 1][2] # k
        /\ call[k].ret = hist[Len(hist) - 1][3]
        /\ q = <<>>

\* ----------------------------------------------------------------- C10
\* C10: get returns the oldest element: the items returned so far,
\* followed by the buffer's contents, are the items put, in the order of
\* the puts.
C10_Fifo == Items(deqLog) \o q = enqLog

\* Two puts with no get between them were followed by two gets, which
\* returned the two items in the order they were put.
C10_Witness ==
    \E i \in 1 .. Len(hist) - 3 :
        /\ hist[i][1] \in {"put", "put_waited"}
        /\ hist[i + 1][1] \in {"put", "put_waited"}
        /\ hist[i + 2][1] \in {"get", "get_waited"}
        /\ hist[i + 3][1] \in {"get", "get_waited"}
        /\ hist[i + 2][3] = hist[i][3]
        /\ hist[i + 3][3] = hist[i + 1][3]
        /\ hist[i][3] # hist[i + 1][3]

\* ----------------------------------------------------------------- C11
\* C11: a put with block=False called on a buffer holding maxsize items
\* fails with Full, a get with block=False called on an empty buffer fails
\* with Empty, and a call that fails with Full or Empty leaves the buffer's
\* contents and the pending-work counter as they were.
C11_NonBlockingFails ==
    [][\A k \in Callers :
         call'[k] # call[k] =>
           /\ (ops' # ops /\ call'[k].op = "put" /\ ~call'[k].block
                 /\ Len(q) = maxsize) => call'[k].st = "full"
           /\ (ops' # ops /\ call'[k].op = "get" /\ ~call'[k].block
                 /\ Len(q) = 0) => call'[k].st = "empty"
           /\ call'[k].st = "full" => Len(q) = maxsize
           /\ call'[k].st = "empty" => Len(q) = 0
           /\ call'[k].st \in {"full", "empty"} =>
                 (q' = q /\ unfinished' = unfinished)]_vars

\* One caller's get with block=False has failed with Empty, and after a
\* put filled the buffer another caller's put with block=False has failed
\* with Full.
C11_Witness ==
    \E k \in Callers, j \in Callers :
        /\ k # j
        /\ call[k].op = "put" /\ call[k].st = "full" /\ ~call[k].block
        /\ call[j].op = "get" /\ call[j].st = "empty" /\ ~call[j].block
        /\ Len(q) = maxsize
        /\ unfinished = Len(q)

\* ----------------------------------------------------------------- C12
\* C12: constructing a queue, directly or by the orchestrator, with a
\* capacity of 0 or less raises the error and constructs nothing (no
\* queue exists and nothing can be called afterwards); constructing with
\* a capacity of 1 or more gives a queue of that capacity that is empty
\* and not full.
C12_InvalidCapacityRejected ==
    /\ [][opc = "new" =>
            LET size == hist'[1][2]
            IN  IF size <= 0
                THEN /\ opc' = "error"
                     /\ maxsize' = maxsize /\ q' = q /\ call' = call
                     /\ producers' = producers /\ consumers' = consumers
                ELSE /\ opc' = IF hist'[1][1] = "queue" THEN "queue" ELSE "reg"
                     /\ maxsize' = size
                     /\ QSize' = 0 /\ QEmpty' /\ ~QFull'
                     /\ unfinished' = 0]_vars
    /\ [][opc # "error"]_vars
    /\ [](opc \notin {"new", "error"} => maxsize >= 1)

\* ProducerConsumerOrchestrator(queue_size=0) has raised.
C12_Witness ==
    /\ opc = "error"
    /\ hist = << <<"orchestrator", 0>> >>

\* ----------------------------------------------------------------- C13
\* C13 as stated: every producer worker that has exited has enqueued
\* exactly one EndMarker.
C13_ExactlyOneEndMarker ==
    \A p \in PIds :
        producers[p].pc = "done" => Len(producers[p].marks) = 1

\* C13 as amended: every producer worker that has exited (after its last
\* line, after a stop request or after a source error) has tried exactly
\* once to enqueue the EndMarker and has enqueued at most one: one when the
\* buffer held fewer than maxsize items at that attempt, none when it was
\* full.  A worker that has not exited has not tried.
C13_AtMostOneEndMarker ==
    /\ [](\A p \in PIds :
            /\ producers[p].tries = (IF producers[p].pc = "done" THEN 1 ELSE 0)
            /\ Len(producers[p].marks) <= producers[p].tries
            /\ \A i \in DOMAIN producers[p].marks :
                  /\ producers[p].marks[i] \in DOMAIN enqLog
                  /\ enqLog[producers[p].marks[i]] = EndMarker)
    /\ [][\A p \in PIds :
            (producers[p].pc # "done" /\ producers'[p].pc = "done") =>
                Len(producers'[p].marks) =
                    (IF Len(q) < maxsize THEN 1 ELSE 0)]_vars

\* A worker that was stopped after the first of its two lines has exited
\* and has enqueued its EndMarker.
C13_Witness ==
    \E p \in PIds :
        /\ producers[p].pc = "done"
        /\ producers[p].stop
        /\ producers[p].file.n = 2
        /\ producers[p].produced = 1
        /\ Len(producers[p].marks) = 1

\* ----------------------------------------------------------------- C14
\* C14: a producer worker that has left its loop makes one put of the
\* EndMarker without blocking: the put can always be taken at once, it is
\* the worker's only one, after it the worker has exited, and when the
\* buffer holds maxsize items at that instant the marker is dropped and
\* the buffer and the pending-work counter are unchanged; otherwise the
\* marker becomes the newest item.
C14_MarkerPutNeverSuspends ==
    /\ [](\A p \in PIds :
            /\ producers[p].pc = "final" => ENABLED ProducerFinal(p)
            /\ producers[p].tries <= 1)
    /\ [][\A p \in PIds :
            (producers[p].pc = "final" /\ producers'[p].pc # "final") =>
                /\ producers'[p].pc = "done"
                /\ producers'[p].tries = producers[p].tries + 1
                /\ IF Len(q) = maxsize
                   THEN /\ q' = q
                        /\ unfinished' = unfinished
                        /\ enqLog' = enqLog
                        /\ producers'[p].marks = <<>>
                   ELSE /\ q' = Append(q, EndMarker)
                        /\ unfinished' = unfinished + 1]_vars

\* A worker has exited with its EndMarker dropped: the buffer is still
\* full of records and holds no EndMarker.
C14_Witness ==
    \E p \in PIds :
        /\ producers[p].pc = "done"
        /\ producers[p].tries = 1
        /\ producers[p].marks = <<>>
        /\ Len(q) = maxsize
        /\ \A i \in DOMAIN q : q[i] # EndMarker

\* ----------------------------------------------------------------- C15
\* The items producer p has enqueued, in the order of the enqueue history
RECURSIVE EnqueuedBy(_, _)
EnqueuedBy(p, log) ==
    IF log = <<>> THEN <<>>
    ELSE IF Head(log)[1] = p
         THEN <<Head(log)>> \o EnqueuedBy(p, Tail(log))
         ELSE EnqueuedBy(p, Tail(log))

\* C15: the records of each producer appear in the enqueue order as a
\* prefix of its source's lines, in the order of the source, and the
\* producer's EndMarker, when it is enqueued, comes after every record of
\* that producer.
C15_SourceOrder ==
    \A p \in PIds :
        LET mine == EnqueuedBy(p, enqLog)
        IN  /\ Len(mine) <= producers[p].file.n
            /\ \A i \in DOMAIN mine :
                  /\ mine[i] = <<p, i>>
                  /\ ItemText(mine[i]) = Word(producers[p].file.id, i)
            /\ \A m \in Range(producers[p].marks) :
                  /\ enqLog[m] = EndMarker
                  /\ \A i \in DOMAIN enqLog : enqLog[i][1] = p => i < m

\* A producer has enqueued its two lines in source order and then its
\* EndMarker, with the EndMarker of another producer between the two lines.
C15_Witness ==
    /\ Len(producers) = 2
    /\ producers[1].file.n = 2
    /\ producers[2].marks = <<2>>
    /\ producers[1].marks = <<4>>
    /\ enqLog = << <<1, 1>>, EndMarker, <<1, 2>>, EndMarker >>

\* ----------------------------------------------------------------- C16
\* C16: once stop() has set the stop event of a producer whose worker is
\* running, the worker eventually exits, also when it is suspended in a
\* put on a full buffer that no consumer drains.
C16_StoppedProducerExits ==
    (producers[1].stop /\ ProducerAlive(1)) ~> ~ProducerAlive(1)

\* ----------------------------------------------------------------- C17
\* C17: once the stop flag of a running consumer is set, its worker
\* eventually exits, whatever the buffer holds; a get that times out on
\* an empty buffer changes nothing but the worker's position, which goes
\* back to the loop test.
C17_StoppedConsumerExits ==
    /\ (consumers[1].stop /\ ConsumerAlive(1)) ~> ~ConsumerAlive(1)
    /\ [][(consumers[1].pc = "get" /\ Len(q) = 0
             /\ consumers'[1].pc # consumers[1].pc) =>
            /\ consumers'[1] =
                  [consumers[1] EXCEPT !.pc = IF consumers[1].stop
                                              THEN "done" ELSE "get"]
            /\ UNCHANGED <<q, unfinished, sinks, producers>>]_vars

\* The consumer was stopped after it had consumed one record, and its
\* worker has exited with the next record still in the buffer.
C17_Witness ==
    /\ consumers[1].stop
    /\ consumers[1].pc = "done"
    /\ consumers[1].consumed = 1
    /\ Len(deqLog) = 1
    /\ q # <<>>
    /\ Head(q) # EndMarker

\* ----------------------------------------------------------------- C18
\* C18: a consumer that has dequeued the EndMarker marks it processed,
\* tries once to put the EndMarker back without blocking (on a full buffer
\* the buffer stays as it is) and leaves its loop; it writes nothing to
\* its sink and does not count the marker as consumed.
C18_MarkerHandling ==
    /\ [](\A c \in CIds :
            consumers[c].pc = "none" =>
                (consumers[c].item = EndMarker /\ unfinished > 0))
    /\ [][\A c \in CIds :
            /\ (consumers[c].pc = "get" /\ consumers'[c].pc = "none") =>
                  (Head(q) = EndMarker /\ q' = Tail(q) /\ sinks' = sinks
                     /\ consumers'[c].consumed = consumers[c].consumed)
            /\ (consumers[c].pc = "none" /\ consumers'[c].pc # "none") =>
                  /\ consumers'[c] = [consumers[c] EXCEPT !.pc = "done"]
                  /\ sinks' = sinks
                  /\ IF Len(q) < maxsize
                     THEN /\ q' = Append(q, EndMarker)
                          /\ enqLog' = Append(enqLog, EndMarker)
                          /\ unfinished' = unfinished
                     ELSE /\ q' = q
                          /\ enqLog' = enqLog
                          /\ unfinished' = unfinished - 1]_vars

\* A consumer has left its loop on the EndMarker and its re-put was
\* dropped: the only EndMarker ever enqueued is the one it dequeued, and
\* the buffer is full of records.
C18_Witness ==
    \E c \in CIds :
        /\ consumers[c].pc = "done"
        /\ consumers[c].item = EndMarker
        /\ Count(enqLog, EndMarker) = 1
        /\ Count(Items(deqLog), EndMarker) = 1
        /\ Len(q) = maxsize
        /\ \A i \in DOMAIN q : q[i] # EndMarker

\* ----------------------------------------------------------------- C19
\* The records (not the EndMarkers) consumer c has dequeued, in order
RECURSIVE DequeuedBy(_, _)
DequeuedBy(c, log) ==
    IF log = <<>> THEN <<>>
    ELSE IF Head(log)[1] = c /\ Head(log)[2] # EndMarker
         THEN <<Head(log)[2]>> \o DequeuedBy(c, Tail(log))
         ELSE DequeuedBy(c, Tail(log))

\* C19: for every record a consumer dequeues it appends the upper-case
\* form to its own sink once, adds one to its consumed count and marks
\* the record processed once; its sink holds the upper-case forms of the
\* records it has dequeued, in that order, and once its worker has exited
\* its consumed count is the number of lines of its sink and the number
\* of records it dequeued.
C19_RecordHandling ==
    /\ [](\A c \in CIds :
            consumers[c].pc # "idle" =>
              LET got == DequeuedBy(c, deqLog)
                  held == IF consumers[c].pc = "process" THEN 1 ELSE 0
              IN  /\ consumers[c].consumed + held = Len(got)
                  /\ Len(sinks[c]) = consumers[c].consumed
                  /\ \A i \in DOMAIN sinks[c] :
                        sinks[c][i] = ProcessItem(ItemText(got[i]))
                  /\ consumers[c].pc = "process" =>
                        (consumers[c].item = got[Len(got)] /\ unfinished > 0))
    /\ [][\A c \in CIds :
            (consumers[c].pc = "process" /\ consumers'[c].pc # "process") =>
                /\ sinks' = [sinks EXCEPT ![c] =
                      Append(@, ProcessItem(ItemText(consumers[c].item)))]
                /\ consumers'[c].consumed = consumers[c].consumed + 1
                /\ unfinished' = unfinished - 1
                /\ q' = q]_vars

\* run() has returned and two consumers have exited, each having
\* dequeued one record and written it to its own sink.
C19_Witness ==
    /\ RunReturned
    /\ Len(consumers) = 2
    /\ \A c \in CIds :
          /\ consumers[c].pc = "done"
          /\ consumers[c].consumed = 1
          /\ Len(sinks[c]) = 1

\* ----------------------------------------------------------------- C20
\* C20: start() called on a producer or consumer whose worker is running
\* raises the error and changes nothing: no worker is spawned, and the
\* stop flags, the counters, the sinks and the buffer are as they were.
\* start() called on a worker that has not been started or has exited
\* succeeds: the stop flag is cleared, a worker is running, the counter is
\* kept, and a consumer's sink is emptied.
C20_StartWhileRunningFails ==
    [][(ops' # ops /\ call'[1].op = "start") =>
         LET r == call'[1]
         IN  IF r.kind = "producer"
             THEN IF ProducerAlive(r.id)
                  THEN /\ r.st = "error"
                       /\ UNCHANGED <<producers, consumers, sinks, q,
                                      unfinished, enqLog, deqLog>>
                  ELSE /\ r.st = "ok"
                       /\ producers'[r.id].pc = "read"
                       /\ ~producers'[r.id].stop
                       /\ producers'[r.id].produced = producers[r.id].produced
                       /\ UNCHANGED <<consumers, sinks, q, unfinished>>
             ELSE IF ConsumerAlive(r.id)
                  THEN /\ r.st = "error"
                       /\ UNCHANGED <<producers, consumers, sinks, q,
                                      unfinished, enqLog, deqLog>>
                  ELSE /\ r.st = "ok"
                       /\ consumers'[r.id].pc = "begin"
                       /\ ~consumers'[r.id].stop
                       /\ consumers'[r.id].consumed = consumers[r.id].consumed
                       /\ sinks'[r.id] = <<>>
                       /\ UNCHANGED <<producers, q, unfinished>>]_vars

\* start() has just failed on a consumer whose worker is running and has
\* written a record: the worker is still running, the record is still in
\* the sink and the count still 1.
C20_Witness ==
    /\ call = WorkerCall("start", "consumer", 1, "error")
    /\ ConsumerAlive(1)
    /\ consumers[1].consumed = 1
    /\ Len(sinks[1]) = 1

\* ----------------------------------------------------------------- C21
\* C21: a producer whose source does not exist enqueues no record and
\* keeps its produced count at 0; its worker goes from reading straight to
\* its one put of the EndMarker, which it can always take, and exits; run()
\* joins it like any other producer.
C21_MissingSource ==
    /\ [](\A p \in PIds :
            ~producers[p].file.exists =>
                /\ producers[p].pc \in {"idle", "read", "final", "done"}
                /\ producers[p].produced = 0
                /\ producers[p].lines = <<>>
                /\ EnqueuedBy(p, enqLog) = <<>>
                /\ producers[p].tries =
                      (IF producers[p].pc = "done" THEN 1 ELSE 0)
                /\ producers[p].pc \in {"read", "final"} =>
                      ENABLED ProducerStep(p)
                /\ (opc = "joinP" /\ oi = p /\ producers[p].pc = "done") =>
                      ENABLED RunJoinProducer)
    /\ [][\A p \in PIds :
            (~producers[p].file.exists /\ producers[p].pc = "read"
               /\ producers'[p].pc # "read") =>
                (producers'[p].pc = "final" /\ q' = q /\ enqLog' = enqLog)]_vars

\* run() has joined a producer whose source does not exist: it has
\* produced nothing and its EndMarker was enqueued, while another producer
\* has produced a record.
C21_Witness ==
    \E p \in PIds, h \in PIds :
        /\ ~producers[p].file.exists
        /\ producers[p].pc = "done"
        /\ producers[p].produced = 0
        /\ Len(producers[p].marks) = 1
        /\ producers[h].produced = 1
        /\ opc \in {"sleep", "joinC", "done"}

\* ----------------------------------------------------------------- C22
\* C22: in a run with a producer whose source does not exist, at least
\* one producer whose source exists and at least one consumer, when run()
\* has returned every line of every existing source has been produced and
\* consumed: total_produced is the number of those lines and total_consumed
\* equals it.
C22_HealthySiblingsComplete ==
    (/\ RunReturned
     /\ Len(consumers) >= 1
     /\ \E p \in PIds : ~producers[p].file.exists
     /\ \E p \in PIds : producers[p].file.exists)
    => /\ GetStats.total_produced = SumN(producers)
       /\ GetStats.total_consumed = GetStats.total_produced

\* ----------------------------------------------------------------- C23
\* C23: run() starts every registered consumer before it starts any
\* producer, so while any consumer has no worker yet no producer has one and
\* nothing has been enqueued; and run() reaches its grace interval and its
\* joins of the consumers only when every producer's worker has ended.
C23_RunOrder ==
    /\ (\E c \in CIds : consumers[c].pc = "idle") =>
           /\ \A p \in PIds : producers[p].pc = "idle"
           /\ enqLog = <<>>
           /\ opc \in {"reg", "startC"}
    /\ opc \in {"sleep", "joinC", "done"} =>
           \A p \in PIds : producers[p].pc = "done"

\* run() is in its grace interval after a producer delivered both a record
\* and its EndMarker, with a consumer's worker still running
C23_Witness ==
    /\ opc = "sleep"
    /\ \E p \in PIds : producers[p].produced = 1 /\ Len(producers[p].marks) = 1
    /\ \E c \in CIds : ConsumerAlive(c)

\* ----------------------------------------------------------------- C24
\* C24: when run() has returned every producer worker and every consumer
\* worker has ended, and from then on no produced or consumed count, no
\* sink and no content of the queue changes.
C24_FinalAfterRun ==
    /\ [](RunReturned =>
            /\ \A p \in PIds : producers[p].pc = "done"
            /\ \A c \in CIds : consumers[c].pc = "done")
    /\ [][RunReturned =>
            UNCHANGED <<producers, consumers, sinks, q, unfinished, enqLog, deqLog>>]_vars

\* run() has returned after two workers moved a record into a sink
C24_Witness ==
    /\ RunReturned
    /\ \E p \in PIds : producers[p].produced = 1
    /\ \E c \in CIds : consumers[c].consumed = 1 /\ Len(sinks[c]) = 1

\* ----------------------------------------------------------------- C25
\* C25: get_stats() changes nothing but its caller's own record, and when
\* it returns, producers and consumers are the numbers of registered
\* producers and consumers, queue_size is the occupancy of the queue, and
\* total_produced and total_consumed are sums of the workers' counts as read
\* during the call: not less than the sum when the call began, not more than
\* the sum at the return, and exactly the sum of the counts when the whole
\* call was made before run() or after run() returned.
C25_GetStats ==
    /\ [][call' # call =>
            UNCHANGED <<maxsize, q, unfinished, producers, consumers, sinks,
                        opc, oi, enqLog, deqLog>>]_vars
    /\ [][(call # <<>> /\ call[1].st = "return" /\ call'[1].st = "ok") =>
            /\ call'[1].producers = Len(producers)
            /\ call'[1].consumers = Len(consumers)
            /\ call'[1].queue_size = Len(q)
            /\ call'[1].total_produced >= call[1].lo[1]
            /\ call'[1].total_produced <= SumProduced(producers)
            /\ call'[1].total_consumed >= call[1].lo[2]
            /\ call'[1].total_consumed <= SumConsumed(consumers)
            /\ (call[1].at = opc /\ opc \in {"reg", "done"}) =>
                   /\ call'[1].total_produced = SumProduced(producers)
                   /\ call'[1].total_consumed = SumConsumed(consumers)]_vars

\* get_stats() called after run() returned reports both records produced,
\* at least one consumed and a non-empty queue
C25_Witness ==
    /\ call # <<>>
    /\ call[1].st = "ok"
    /\ call[1].at = "done"
    /\ call[1].total_produced = 2
    /\ call[1].total_consumed >= 1
    /\ call[1].queue_size >= 1

\* ----------------------------------------------------------------- C26
\* C26 as stated: every put that succeeds raises the pending counter by
\* one, every task_done() lowers it by one, a join() returns only with the
\* counter at zero, and a join() called with the counter at zero returns at
\* once.
C26_EveryMarkDecrements ==
    [][/\ Len(enqLog') = Len(enqLog) + 1 => unfinished' = unfinished + 1
       /\ \A k \in Callers :
            /\ QTaskDone(k) => unfinished' = unfinished - 1
            /\ ((QJoin(k) \/ QJoinResume(k)) /\ call'[k].st = "ok") => unfinished = 0
            /\ (QJoin(k) /\ unfinished = 0) => call'[k].st = "ok"]_vars

\* C26 amended: every put that succeeds raises the pending counter by one;
\* a task_done() called with the counter above zero lowers it by one, and
\* one called with the counter at zero fails and leaves it at zero; the
\* counter changes in no other way; a join() returns only with the counter
\* at zero, and a join() called with the counter at zero returns at once.
C26_PendingCounter ==
    [][/\ Len(enqLog') = Len(enqLog) + 1 => unfinished' = unfinished + 1
       /\ unfinished' > unfinished => Len(enqLog') = Len(enqLog) + 1
       /\ unfinished' < unfinished => \E k \in Callers : QTaskDone(k)
       /\ \A k \in Callers :
            /\ QTaskDone(k) =>
                 IF unfinished > 0
                 THEN unfinished' = unfinished - 1 /\ call'[k].st = "ok"
                 ELSE unfinished' = 0 /\ call'[k].st = "error"
            /\ ((QJoin(k) \/ QJoinResume(k)) /\ call'[k].st = "ok") => unfinished = 0
            /\ (QJoin(k) /\ unfinished = 0) => call'[k].st = "ok"]_vars

\* A join() has returned after an item was put, got and marked processed
C26_Witness ==
    /\ unfinished = 0
    /\ Len(enqLog) >= 1
    /\ Len(deqLog) = Len(enqLog)
    /\ \E k \in Callers : call[k].op = "join" /\ call[k].st = "ok"

\* ----------------------------------------------------------------- C27
\* C27: a start() of a consumer that succeeds leaves the stop request
\* cleared, the sink empty and the new worker at its beginning; and the sink
\* of a consumer that has been started holds exactly the upper-case forms of
\* the records its current worker has dequeued and written, in that order:
\* no line that was in the sink before the start, none written by an earlier
\* worker.
C27_StartClearsSink ==
    /\ [](\A c \in CIds :
            consumers[c].pc # "idle" =>
              LET got == DequeuedBy(c, SubSeq(deqLog, consumers[c].since + 1,
                                              Len(deqLog)))
                  held == IF consumers[c].pc = "process" THEN 1 ELSE 0
              IN  /\ Len(sinks[c]) + held = Len(got)
                  /\ \A i \in DOMAIN sinks[c] :
                        sinks[c][i] = ProcessItem(ItemText(got[i])))
    /\ [][\A c \in CIds :
            (ops' = ops + 1 /\ call' = WorkerCall("start", "consumer", c, "ok")) =>
                /\ ~ConsumerAlive(c)
                /\ ~consumers'[c].stop
                /\ consumers'[c].pc = "begin"
                /\ sinks'[c] = <<>>]_vars

\* The consumer was started again after its first worker had written a
\* line and exited: the line is gone, the second worker has run.
C27_Witness ==
    \E c \in CIds :
        /\ consumers[c].since > 0
        /\ consumers[c].consumed = 1
        /\ consumers[c].pc \notin {"idle", "begin"}
        /\ sinks[c] = <<>>

\* ----------------------------------------------------------------- C28
\* C28 as stated: when the second of two runs on the same inputs and the
\* same output files has returned, every output file holds what it held
\* when the first run returned, whatever the numbers of producers and
\* consumers.
C28_SameSinksTwice ==
    (hist # <<>> /\ RunReturned) => sinks = hist[1]

\* C28 amended: with one producer and one consumer, when the second of two
\* runs on the same inputs and the same output file has returned, the file
\* holds what it held when the first run returned: the upper-case forms of
\* the source's lines, in the order of the source, once each.
C28_SameSinkOneToOne ==
    (hist # <<>> /\ RunReturned /\ Len(producers) = 1 /\ Len(consumers) = 1) =>
        /\ sinks = hist[1]
        /\ sinks[1] = ExpectedSink(1, producers[1].file.n)

\* Both runs of one producer of two lines and one consumer have returned
C28_Witness ==
    /\ hist # <<>>
    /\ RunReturned
    /\ Len(producers) = 1
    /\ Len(consumers) = 1
    /\ Len(sinks[1]) = 2
    /\ Len(hist[1][1]) = 2

\* ----------------------------------------------------------------- C29
\* C29: once run() has been called the collections of producers and of
\* consumers never change: an add_producer or add_consumer call made from
\* then on leaves them as they are.
C29_NoLateRegistration ==
    [][opc # "reg" => /\ Len(producers') = Len(producers)
                      /\ Len(consumers') = Len(consumers)]_vars

\* ----------------------------------------------------------------- C30
\* Caller k is suspended in a put / get with a timeout
TimedPut(k) ==
    call[k].st = "waiting" /\ call[k].op = "put" /\ call[k].timed

TimedGet(k) ==
    call[k].st = "waiting" /\ call[k].op = "get" /\ call[k].timed

\* C30: a put(block=True, timeout) either appends its item, at its call or
\* later, in a state where the queue holds fewer than maxsize items, or
\* waits with the queue full and then fails with Full in a state where the
\* queue is still full, leaving queue and pending counter as they are; a
\* get(block=True, timeout) either returns the oldest item of a non-empty
\* queue and removes it, or waits with the queue empty and then fails with
\* Empty leaving the queue as it is; and a call that waits with a timeout
\* can always take one of its two ends.
C30_TimedCalls ==
    /\ [][\A k \in Callers :
            /\ QPut(k, TRUE, TRUE) =>
                 IF Len(q) < maxsize
                 THEN call'[k].st = "ok" /\ q' = Append(q, <<k, ops + 1>>)
                 ELSE TimedPut(k)' /\ q' = q /\ unfinished' = unfinished
            /\ (TimedPut(k) /\ ~TimedPut(k)') =>
                 \/ /\ call'[k].st = "ok"
                    /\ Len(q) < maxsize
                    /\ q' = Append(q, call[k].item)
                    /\ unfinished' = unfinished + 1
                 \/ /\ call'[k].st = "full"
                    /\ Len(q) = maxsize
                    /\ q' = q
                    /\ unfinished' = unfinished
                    /\ enqLog' = enqLog
            /\ QGet(k, TRUE, TRUE) =>
                 IF Len(q) > 0
                 THEN call'[k].st = "ok" /\ call'[k].ret = Head(q) /\ q' = Tail(q)
                 ELSE TimedGet(k)' /\ q' = q /\ unfinished' = unfinished
            /\ (TimedGet(k) /\ ~TimedGet(k)') =>
                 \/ /\ call'[k].st = "ok"
                    /\ Len(q) > 0
                    /\ call'[k].ret = Head(q)
                    /\ q' = Tail(q)
                 \/ /\ call'[k].st = "empty"
                    /\ q = <<>>
                    /\ q' = q
                    /\ unfinished' = unfinished
                    /\ deqLog' = deqLog]_vars
    /\ [](\A k \in Callers :
            (TimedPut(k) \/ TimedGet(k)) => ENABLED QResume(k))

\* A put with a timeout has waited on a full queue and failed with Full,
\* and a get with a timeout has waited on an empty queue and succeeded
C30_Witness ==
    /\ \E k \in Callers :
          call[k].st = "full" /\ call[k].block /\ call[k].timed /\ Len(q) = maxsize
    /\ \E i \in DOMAIN hist : hist[i][1] = "get_waited"

\* ----------------------------------------------------------------- C31
\* The upper-case forms of a sequence of records
Processed(items) == [i \in DOMAIN items |-> ProcessItem(ItemText(items[i]))]

\* C31: the lines of a consumer's sink are the upper-case forms of the
\* records that consumer has dequeued, in the order it dequeued them, all of
\* them but the one it is still holding; and a sink changes only by being
\* emptied at the start or by one line being appended after its last.
C31_SinkInDequeueOrder ==
    /\ [](\A c \in CIds :
            consumers[c].pc # "idle" =>
              LET got == DequeuedBy(c, deqLog)
                  written == IF consumers[c].pc = "process"
                             THEN SubSeq(got, 1, Len(got) - 1) ELSE got
              IN  sinks[c] = Processed(written))
    /\ [][\A c \in CIds :
            sinks'[c] # sinks[c] =>
               \/ consumers[c].pc = "idle" /\ sinks'[c] = <<>>
               \/ /\ Len(sinks'[c]) = Len(sinks[c]) + 1
                  /\ SubSeq(sinks'[c], 1, Len(sinks[c])) = sinks[c]]_vars

\* A consumer has written two records, distinct after the transform, in
\* the order it dequeued them
C31_Witness ==
    \E c \in CIds :
        /\ Len(sinks[c]) = 2
        /\ sinks[c][1] # sinks[c][2]
        /\ Len(DequeuedBy(c, deqLog)) = 2

\* ----------------------------------------------------------------- C32
\* The positions in the dequeue log of the items consumer c took
TakenBy(c) == {i \in DOMAIN deqLog : deqLog[i][1] = c}

\* C32: a consumer dequeues at most one EndMarker, that EndMarker is the
\* last item it dequeues, and having dequeued it the consumer is handling
\* it or has exited, whatever the producers are doing.
C32_ExitOnFirstMarker ==
    \A c \in CIds :
        LET markers == {i \in TakenBy(c) : deqLog[i][2] = EndMarker}
        IN  /\ Cardinality(markers) <= 1
            /\ \A i \in markers :
                  /\ \A j \in TakenBy(c) : j <= i
                  /\ consumers[c].pc \in {"none", "done"}

\* Every consumer has exited on an EndMarker while a producer whose source
\* has a line is running and has enqueued nothing yet
C32_Witness ==
    /\ CIds # {}
    /\ \A c \in CIds : consumers[c].pc = "done" /\ consumers[c].item = EndMarker
    /\ \E p \in PIds :
          /\ ProducerAlive(p)
          /\ producers[p].file.n >= 1
          /\ EnqueuedBy(p, enqLog) = <<>>

\* ----------------------------------------------------------------- C33
\* C33: in no state of a run is a producer suspended in its blocking put
\* on a full queue while the run has consumers and every consumer's worker
\* has exited.
C33_NoProducerStranded ==
    ~ /\ CIds # {}
      /\ \A c \in CIds : consumers[c].pc = "done"
      /\ \E p \in PIds : producers[p].pc = "put" /\ ~PutReady

\* ----------------------------------------------------------------- C34
\* The consumers that have dequeued an item and not yet called task_done()
\* for it
Holding == {c \in CIds : consumers[c].pc \in {"process", "none"}}

\* C34: the pending counter is the number of items in the queue plus the
\* number of items a consumer has dequeued and not yet marked processed; so
\* it is never negative, never below the size of the queue, above zero
\* whenever a consumer is about to call task_done(), and equal to the size
\* of the queue once no worker is running.
C34_PendingIsQueuedPlusHeld ==
    /\ unfinished = Len(q) + Cardinality(Holding)
    /\ unfinished >= 0
    /\ unfinished >= Len(q)
    /\ Holding # {} => TaskDoneOk
    /\ ((\A p \in PIds : ~ProducerAlive(p)) /\ (\A c \in CIds : ~ConsumerAlive(c)))
          => unfinished = Len(q)

\* A consumer holds a record it has not yet marked processed while the
\* queue is full: the counter is one above the queue size.
C34_Witness ==
    /\ \E c \in CIds : consumers[c].pc = "process"
    /\ Len(q) = maxsize
    /\ unfinished = maxsize + 1

\* ----------------------------------------------------------------- C35
\* C35: a producer's produced count is the number of records it has
\* enqueued, or one less exactly while its worker is between a put that
\* returned and the increment; once the worker has left its loop the two are
\* equal and at most the number of records of the source.  The count never
\* decreases, and it changes only in a step of that producer's own worker,
\* by one.
C35_ProducedCount ==
    /\ [](\A p \in PIds :
            LET sent == Len(EnqueuedBy(p, enqLog))
            IN  /\ producers[p].produced =
                      (IF producers[p].pc = "inc" THEN sent - 1 ELSE sent)
                /\ producers[p].produced >= 0
                /\ producers[p].pc \in {"final", "done"} =>
                      producers[p].produced <= producers[p].file.n)
    /\ [][\A p \in PIds :
            producers'[p].produced # producers[p].produced =>
                /\ producers'[p].produced = producers[p].produced + 1
                /\ producers[p].pc = "inc"
                /\ ProducerStep(p)]_vars

\* A producer's second put has returned and its count is still 1
C35_Witness ==
    \E p \in PIds :
        /\ producers[p].pc = "inc"
        /\ producers[p].produced = 1
        /\ Len(EnqueuedBy(p, enqLog)) = 2

\* ----------------------------------------------------------------- C36
\* The number of records (not EndMarkers) ever enqueued
RecordsEnqueued == Cardinality({i \in DOMAIN enqLog : enqLog[i] # EndMarker})

\* C36 as stated: the consumed counts sum to at most the number of records
\* ever enqueued, which is at most the number of source lines, and a
\* get_stats() that has returned reports a total_consumed of at most its
\* total_produced plus the number of producers.
C36_StatsConsumedWithinProduced ==
    /\ SumConsumed(consumers) <= RecordsEnqueued
    /\ RecordsEnqueued <= SumN(producers)
    /\ (call # <<>> /\ call[1].st = "ok") =>
          call[1].total_consumed <= call[1].total_produced + call[1].producers

\* C36 amended: the consumed counts sum to at most the number of records
\* ever enqueued, which is at most the number of source lines and at most
\* the sum of the produced counts plus the number of producers; a
\* get_stats() that has returned reports a total_consumed of at most the
\* number of source lines and at most the sum of the produced counts, as
\* they are once it has returned, plus the number of producers; and when it
\* was called after run() returned, of at most the total_produced it
\* reports.
C36_ConsumedWithinProduced ==
    /\ SumConsumed(consumers) <= RecordsEnqueued
    /\ RecordsEnqueued <= SumN(producers)
    /\ RecordsEnqueued <= SumProduced(producers) + Len(producers)
    /\ (call # <<>> /\ call[1].st = "ok") =>
          /\ call[1].total_consumed <= SumN(producers)
          /\ call[1].total_consumed <= SumProduced(producers) + Len(producers)
          /\ call[1].at = "done" =>
                call[1].total_consumed <= call[1].total_produced

\* get_stats() has returned a total_consumed that exceeds its
\* total_produced by more than the number of producers
C36_Witness ==
    /\ call # <<>>
    /\ call[1].st = "ok"
    /\ call[1].total_consumed > call[1].total_produced + call[1].producers
    /\ call[1].total_consumed = SumConsumed(consumers)

\* ----------------------------------------------------------------- C37
\* C37: a producer's worker enqueues at most one record while its stop
\* event is set, the one whose put it had reached when the event was set,
\* and then goes to its EndMarker attempt; a consumer's worker dequeues at
\* most one item while its stop event is set, and exits when it has handled
\* that item.
C37_StopBounded ==
    /\ [](/\ \A p \in PIds :
               /\ producers[p].late <= 1
               /\ producers[p].late = 1 =>
                     producers[p].pc \in {"inc", "final", "done"}
               /\ (producers[p].stop /\ producers[p].pc = "put") =>
                     producers[p].late = 0
          /\ \A c \in CIds :
               /\ consumers[c].late <= 1
               /\ consumers[c].late = 1 =>
                     consumers[c].pc \in {"process", "none", "done"}
               /\ (consumers[c].stop /\ consumers[c].pc = "get") =>
                     consumers[c].late = 0)
    /\ [][/\ \A p \in PIds :
               (producers[p].stop /\ producers[p].pc = "inc"
                  /\ producers'[p].pc # "inc") => producers'[p].pc = "final"
          /\ \A c \in CIds :
               (consumers[c].stop /\ consumers[c].pc = "process"
                  /\ consumers'[c].pc # "process") => consumers'[c].pc = "done"]_vars

\* A producer asked to stop has enqueued the record whose put was under
\* way and has exited with a line of its source left
C37_Witness ==
    \E p \in PIds :
        /\ producers[p].stop
        /\ producers[p].late = 1
        /\ producers[p].pc = "done"
        /\ producers[p].produced < producers[p].file.n

\* ----------------------------------------------------------------- C38
\* C38: the EndMarkers in the queue plus those a consumer has dequeued and
\* not yet put back are at most as many as the producers whose worker has
\* made its EndMarker attempt and exited; and when run() has returned with
\* one producer, whose EndMarker was enqueued, and one consumer, the queue
\* holds one item, an EndMarker.
C38_MarkersConserved ==
    /\ Count(q, EndMarker) + Cardinality({c \in CIds : consumers[c].pc = "none"})
          <= Cardinality({p \in PIds : producers[p].pc = "done"})
    /\ (/\ RunReturned
        /\ Len(producers) = 1
        /\ Len(consumers) = 1
        /\ Len(producers[1].marks) = 1)
         => (q = <<EndMarker>> /\ GetStats.queue_size = 1)

\* run() has returned with one producer and one consumer that moved two
\* records, and the EndMarker the consumer put back is what the queue holds
C38_Witness ==
    /\ RunReturned
    /\ Len(producers) = 1
    /\ Len(consumers) = 1
    /\ consumers[1].consumed = 2
    /\ Count(enqLog, EndMarker) = 2
    /\ q = <<EndMarker>>

\* ----------------------------------------------------------------- C39
\* C39: with one producer and one consumer, once the consumer has
\* dequeued the EndMarker and exited, its sink is the sequence of the
\* source's lines, stripped and in upper case, in the order of the source.
C39_OneToOneOrder ==
    (/\ Len(producers) = 1
     /\ Len(consumers) = 1
     /\ consumers[1].pc = "done"
     /\ <<1, EndMarker>> \in Range(deqLog))
    => sinks[1] = ExpectedSink(producers[1].file.id, producers[1].file.n)

\* The only consumer has exited on the EndMarker of the only producer, with
\* two lines of different text in its sink, before run() has returned
C39_Witness ==
    /\ Len(producers) = 1
    /\ Len(consumers) = 1
    /\ consumers[1].pc = "done"
    /\ <<1, EndMarker>> \in Range(deqLog)
    /\ Len(sinks[1]) = 2
    /\ sinks[1][1] # sinks[1][2]
    /\ ~RunReturned

====
